---- MODULE Spec2Model ----
(***************************************************************************)
(* Vertex ambient occlusion baker (BakeAOVertex.js).                       *)
(*                                                                         *)
(* Numbers are exact rationals <<n, d>> (d > 0, lowest terms); a vector is *)
(* a triple of rationals.  The scene is chosen so that every norm() the    *)
(* script takes is rational; Math.pow with a fractional exponent rounds to *)
(* PowPrecision.                                                           *)
(***************************************************************************)
EXTENDS Integers, Sequences, FiniteSets, TLC

\* ------------------------------------------------------------------ bounds
\* Number of outcomes of the random source that one call of
\* generateHemisphereSamples is drawn from.
NumStreams == 2

\* ------------------------------------------------------- rational numbers
Abs(n) == IF n < 0 THEN -n ELSE n

RECURSIVE Gcd(_, _)
Gcd(a, b) == IF b = 0 THEN a ELSE Gcd(b, a % b)

Rat(n, d) ==
    LET g == Gcd(Abs(n), d) IN IF n = 0 THEN <<0, 1>> ELSE <<n \div g, d \div g>>

Num(n) == <<n, 1>>
Zero == <<0, 1>>
One == <<1, 1>>

\* (integers, and a zero operand, take a short way to the same value)
RAdd(a, b) ==
    IF a[2] = 1 /\ b[2] = 1 THEN <<a[1] + b[1], 1>>
    ELSE IF a[1] = 0 THEN b ELSE IF b[1] = 0 THEN a
    ELSE Rat(a[1] * b[2] + b[1] * a[2], a[2] * b[2])
RSub(a, b) ==
    IF a[2] = 1 /\ b[2] = 1 THEN <<a[1] - b[1], 1>>
    ELSE IF b[1] = 0 THEN a
    ELSE Rat(a[1] * b[2] - b[1] * a[2], a[2] * b[2])
RMul(a, b) ==
    IF a[1] = 0 \/ b[1] = 0 THEN Zero
    ELSE IF a[2] = 1 /\ b[2] = 1 THEN <<a[1] * b[1], 1>>
    ELSE Rat(a[1] * b[1], a[2] * b[2])
RNeg(a) == <<-a[1], a[2]>>
\* 1.0 / a, for a # 0
RInv(a) == IF a[1] > 0 THEN <<a[2], a[1]>> ELSE <<-a[2], -a[1]>>
RLt(a, b) == a[1] * b[2] < b[1] * a[2]
RLe(a, b) == a[1] * b[2] <= b[1] * a[2]
RAbs(a) == <<Abs(a[1]), a[2]>>

\* Math.sqrt of a rational whose root is rational (every norm of the scene).
ISqrt(n) == CHOOSE k \in 0..n : k * k = n
RSqrt(a) == <<ISqrt(a[1]), ISqrt(a[2])>>

\* -------------------------------------------------------------- Vec3D
Vec3D(x, y, z) == <<x, y, z>>
V3(x, y, z) == <<Num(x), Num(y), Num(z)>>
VAdd(a, b) == <<RAdd(a[1], b[1]), RAdd(a[2], b[2]), RAdd(a[3], b[3])>>
VSub(a, b) == <<RSub(a[1], b[1]), RSub(a[2], b[2]), RSub(a[3], b[3])>>
VMul(a, k) == <<RMul(a[1], k), RMul(a[2], k), RMul(a[3], k)>>
VDot(a, b) == RAdd(RAdd(RMul(a[1], b[1]), RMul(a[2], b[2])), RMul(a[3], b[3]))
VCross(a, b) ==
    <<RSub(RMul(a[2], b[3]), RMul(a[3], b[2])),
      RSub(RMul(a[3], b[1]), RMul(a[1], b[3])),
      RSub(RMul(a[1], b[2]), RMul(a[2], b[1]))>>
VNorm(a) == RSqrt(VDot(a, a))
ZeroVec == V3(0, 0, 0)
WorldUp == V3(0, 1, 0)
WorldX == V3(1, 0, 0)

\* -------------------------------------------------------------- Mat4D
\* A transform is a uniform scale followed by a translation.
Mat(s, t) == [s |-> s, t |-> t]
MatMultiply(m, p) == VAdd(VMul(p, m.s), m.t)
MatInverse(m) == [s |-> RInv(m.s), t |-> VMul(m.t, RNeg(RInv(m.s)))]
Identity == Mat(One, ZeroVec)

\* ------------------------------------------------------------ Core access
\* A core is [vertices, polygons, normals, uv]; indices are 0-based as in the
\* script.
\* The host's null, as an object and as a core.
NoObject == 0
vertexCount(core) == Len(core.vertices)
vertex(core, i) == core.vertices[i + 1]
polygonCount(core) == Len(core.polygons)
polygonSize(core, p) == Len(core.polygons[p + 1])
vertexIndex(core, p, c) == core.polygons[p + 1][c + 1]
normal(core, p) == core.normals[p + 1]
Vec4D(x, y, z, w) == <<x, y, z, w>>
setUVCoord(core, p, c, val) == [core EXCEPT !.uv[p + 1][c + 1] = val]

\* ------------------------------------------------- rayTriangleIntersect
epsilon == <<1, 1000000>>

\* Each local of the function is bound once, by \E over a one-element set.
rayTriangleIntersect(rayStart, rayDir, rayLength, v0, v1, v2) ==
    \E edge1 \in {VSub(v1, v0)} : \E edge2 \in {VSub(v2, v0)} :
    \E h \in {VCross(rayDir, edge2)} :
    \E a \in {VDot(edge1, h)} :
        IF RLt(RNeg(epsilon), a) /\ RLt(a, epsilon) THEN FALSE
        ELSE
        \E f \in {RInv(a)} : \E s \in {VSub(rayStart, v0)} :
        \E u \in {RMul(f, VDot(s, h))} :
            IF RLt(u, Zero) \/ RLt(One, u) THEN FALSE
            ELSE
            \E q \in {VCross(s, edge1)} :
            \E v \in {RMul(f, VDot(rayDir, q))} :
                IF RLt(v, Zero) \/ RLt(One, RAdd(u, v)) THEN FALSE
                ELSE
                \E t \in {RMul(f, VDot(edge2, q))} :
                    RLt(epsilon, t) /\ RLt(t, rayLength)

\* ------------------------------------------------- rayIntersectsAnyMesh
\* The three nested loops, each returning the place <<m, p, t>> of the first
\* accepted triangle, or NoHit when the loop runs to its end.
NoHit == <<>>

\* One pass of a loop: return at a hit, else go on with the rest of the loop.
ReturnOrContinue(hit, rest) == IF hit # NoHit THEN hit ELSE rest

\* Variant: the fan loop ends one triangle early (t < polySize - 3).
RECURSIVE TriangleLoopShort(_, _, _, _, _, _)
TriangleLoopShort(localStart, localDir, localLength, core, p, t) ==
    IF ~(t < polygonSize(core, p) - 3) THEN NoHit
    ELSE IF rayTriangleIntersect(localStart, localDir, localLength,
                                 vertex(core, vertexIndex(core, p, 0)),
                                 vertex(core, vertexIndex(core, p, t + 1)),
                                 vertex(core, vertexIndex(core, p, t + 2)))
         THEN <<p, t>>
         ELSE TriangleLoopShort(localStart, localDir, localLength, core, p, t + 1)

\* for (t = t0; t < polySize - 2; t++)
RECURSIVE TriangleLoop(_, _, _, _, _, _)
TriangleLoop(localStart, localDir, localLength, core, p, t) ==
    IF ~(t < polygonSize(core, p) - 2) THEN NoHit
    ELSE IF rayTriangleIntersect(localStart, localDir, localLength,
                                 vertex(core, vertexIndex(core, p, 0)),
                                 vertex(core, vertexIndex(core, p, t + 1)),
                                 vertex(core, vertexIndex(core, p, t + 2)))
         THEN <<p, t>>
         ELSE TriangleLoop(localStart, localDir, localLength, core, p, t + 1)

\* for (p = p0; p < core.polygonCount(); p++)
RECURSIVE PolygonLoop(_, _, _, _, _)
PolygonLoop(localStart, localDir, localLength, core, p) ==
    IF ~(p < polygonCount(core)) THEN NoHit
    ELSE ReturnOrContinue(TriangleLoop(localStart, localDir, localLength, core, p, 0),
                          PolygonLoop(localStart, localDir, localLength, core, p + 1))

\* localDir = localDir.multiply(1.0 / localLength), skipped with the mesh
\* when localLength == 0
LocalRayOfLength(localStart, localDir, localLength) ==
    [start |-> localStart,
     length |-> localLength,
     dir |-> IF localLength = Zero THEN localDir
             ELSE VMul(localDir, RInv(localLength))]

\* localDir = localEnd.sub(localStart); localLength = localDir.norm()
LocalRayBetween(localStart, localEnd) ==
    LocalRayOfLength(localStart, VSub(localEnd, localStart),
                     VNorm(VSub(localEnd, localStart)))

\* The body of the mesh loop for occluder `mesh`: the ray in local space.
LocalRay(rayStart, rayEnd, mesh) ==
    LocalRayBetween(MatMultiply(MatInverse(mesh.matrix), rayStart),
                    MatMultiply(MatInverse(mesh.matrix), rayEnd))

\* One mesh: `continue` when the local ray has no length, else the polygon loop.
MeshBody(ray, core) ==
    IF ray.length = Zero THEN NoHit
    ELSE PolygonLoop(ray.start, ray.dir, ray.length, core, 0)

\* A hit inside mesh m, reported with the mesh's index.
AtMesh(m, hit) == IF hit = NoHit THEN NoHit ELSE <<m>> \o hit

\* for (m = m0; m < meshes.length; m++), m counted from 1 here
RECURSIVE MeshLoop(_, _, _, _)
MeshLoop(rayStart, rayEnd, meshes, m) ==
    IF m > Len(meshes) THEN NoHit
    ELSE ReturnOrContinue(
             AtMesh(m, MeshBody(LocalRay(rayStart, rayEnd, meshes[m]), meshes[m].core)),
             MeshLoop(rayStart, rayEnd, meshes, m + 1))

\* The place of the triangle rayIntersectsAnyMesh returns true at, or NoHit.
FirstHit(rayStart, rayEnd, meshes) ==
    IF VNorm(VSub(rayEnd, rayStart)) = Zero THEN NoHit
    ELSE MeshLoop(rayStart, rayEnd, meshes, 1)

rayIntersectsAnyMesh(rayStart, rayEnd, meshes) ==
    FirstHit(rayStart, rayEnd, meshes) # NoHit

\* ------------------------------------------------- calculateVertexNormal
\* The inner corner scan: true when some corner of polygon p is the vertex
\* (the scan breaks at the first one, so a polygon counts once).
UsesVertex(core, p, v) ==
    \E c \in 0..(polygonSize(core, p) - 1) : vertexIndex(core, p, c) = v

\* The polygon loop from polygon p on: <<sum of face normals, faceCount>>.
RECURSIVE FaceScan(_, _, _, _)
FaceScan(core, v, p, acc) ==
    IF ~(p < polygonCount(core)) THEN acc
    ELSE FaceScan(core, v, p + 1,
                  IF UsesVertex(core, p, v)
                  THEN <<VAdd(acc[1], normal(core, p)), acc[2] + 1>>
                  ELSE acc)

\* if (length > 0) vec = vec.multiply(1.0 / length): no other case is handled
NormalizeBy(vec, length) ==
    IF RLt(Zero, length) THEN VMul(vec, RInv(length)) ELSE vec
Normalize(vec) == NormalizeBy(vec, VNorm(vec))

\* The faceCount > 0 branch: average, transform to world space, normalise.
AveragedNormal(sum, faceCount, matrix) ==
    Normalize(VSub(MatMultiply(matrix, VMul(sum, Rat(1, faceCount))),
                   MatMultiply(matrix, ZeroVec)))

calculateVertexNormal(core, v, matrix) ==
    LET acc == FaceScan(core, v, 0, <<ZeroVec, 0>>)
    IN  IF acc[2] > 0 THEN AveragedNormal(acc[1], acc[2], matrix) ELSE WorldUp

\* ------------------------------------------- generateHemisphereSamples
\* Math.random(): the k-th number (k from 0) of outcome `stream` of the
\* random source.  The script draws u (even k) and then v (odd k) for every
\* sample; the outcomes are taken where sin, cos and sqrt are rational.
UValues == <<Zero, <<1, 4>>, <<1, 2>>, <<3, 4>>>>
VValues == <<Zero, <<9, 25>>, <<16, 25>>>>
Random(stream, k) ==
    IF k % 2 = 0 THEN UValues[((((k \div 2) + 1) * stream) % 4) + 1]
    ELSE VValues[(((k \div 2) + stream) % 3) + 1]

\* cos and sin of theta = 2 * PI * u at the quarter turns
CosTheta(u) == CASE u = Zero -> One [] u = <<1, 2>> -> Num(-1) [] OTHER -> Zero
SinTheta(u) == CASE u = <<1, 4>> -> One [] u = <<3, 4>> -> Num(-1) [] OTHER -> Zero

HemisphereSample(u, v) ==
    LET cosPhi == RSqrt(v)                \* cos(acos(sqrt(v)))
        sinPhi == RSqrt(RSub(One, v))     \* sin(acos(sqrt(v)))
    IN  Vec3D(RMul(sinPhi, CosTheta(u)), cosPhi, RMul(sinPhi, SinTheta(u)))

generateHemisphereSamples(count, stream) ==
    [i \in 1..count |->
        HemisphereSample(Random(stream, 2 * (i - 1)), Random(stream, 2 * (i - 1) + 1))]

\* ---------------------------------------------------- calculateOcclusion
TangentUp(nrm) ==
    IF RLt(<<9, 10>>, RAbs(VDot(nrm, WorldUp))) THEN WorldX ELSE WorldUp

Tangent(nrm) == Normalize(VCross(nrm, TangentUp(nrm)))

\* worldDir = tangent * x + normal * y + bitangent * z
WorldDir(nrm, tangent, sampleDir) ==
    VAdd(VAdd(VMul(tangent, sampleDir[1]), VMul(nrm, sampleDir[2])),
         VMul(VCross(nrm, tangent), sampleDir[3]))

\* rayEnd = rayStart + worldDir * maxDistance
RaySegment(rayStart, worldDir, maxDistance) ==
    [start |-> rayStart, end |-> VAdd(rayStart, VMul(worldDir, maxDistance))]

\* The ray segment cast for one sample direction.
SampleRay(worldPos, nrm, sampleDir, maxDistance, bias) ==
    RaySegment(VAdd(worldPos, VMul(nrm, bias)),
               WorldDir(nrm, Tangent(nrm), sampleDir), maxDistance)

\* Variant: the counter is raised for a stopped ray and once more after it.
CountHitTwice(occluded, hit) == IF hit THEN occluded + 2 ELSE occluded

\* if (rayIntersectsAnyMesh(...)) occluded++
CountHit(occluded, hit) == IF hit THEN occluded + 1 ELSE occluded

\* The sample loop from sample s on (s from 1): the occluded counter.
RECURSIVE SampleLoop(_, _, _, _)
SampleLoop(rays, allMeshes, s, occluded) ==
    IF s > Len(rays) THEN occluded
    ELSE SampleLoop(rays, allMeshes, s + 1,
                    CountHit(occluded,
                             rayIntersectsAnyMesh(rays[s].start, rays[s].end, allMeshes)))

\* return 1.0 - (occluded / totalSamples)
Accessibility(occluded, totalSamples) == RSub(One, Rat(occluded, totalSamples))

\* The function's locals and its return value, once the loop has run.
OcclusionOf(rays, occluded) ==
    [occluded |-> occluded,
     totalSamples |-> Len(rays),
     rays |-> rays,
     value |-> Accessibility(occluded, Len(rays))]

CastRays(rays, allMeshes) == OcclusionOf(rays, SampleLoop(rays, allMeshes, 1, 0))

calculateOcclusion(worldPos, nrm, sampleDirections, allMeshes, maxDistance, bias) ==
    CastRays([s \in 1..Len(sampleDirections) |->
                 SampleRay(worldPos, nrm, sampleDirections[s], maxDistance, bias)],
             allMeshes)

\* ------------------------------------------------------------- Math.pow
\* Number of steps per unit that a fractional power is rounded down to.
PowPrecision == 100

RECURSIVE IntPow(_, _)
IntPow(x, n) == IF n = 0 THEN One ELSE RMul(x, IntPow(x, n - 1))

\* Square root rounded down to a multiple of 1 / PowPrecision.
RoundedSqrt(x) ==
    LET k == CHOOSE k \in 0..PowPrecision :
                 /\ k * k * x[2] <= x[1] * PowPrecision * PowPrecision
                 /\ x[1] * PowPrecision * PowPrecision < (k + 1) * (k + 1) * x[2]
    IN  Rat(k, PowPrecision)

\* Math.pow(x, e) for an exponent e = n or n / 2
MathPow(x, e) == IF e[2] = 1 THEN IntPow(x, e[1]) ELSE RoundedSqrt(IntPow(x, e[1]))

\* if (invert) occlusion = 1.0 - occlusion
Inverted(occlusion, invert) == IF invert THEN RSub(One, occlusion) ELSE occlusion

\* Lines 103-106: intensity, then inversion.
PostProcess(occlusion, intensity, invert) ==
    Inverted(MathPow(occlusion, intensity), invert)

\* Variant: the corner scan returns after the first corner it writes.
setVertexColorFirstCorner(core, v, color) ==
    LET first == CHOOSE pc0 \in {<<p, c>> \in (1..Len(core.polygons)) \X (1..4) :
                                    c <= Len(core.polygons[p]) /\ core.polygons[p][c] = v} :
                     \A other \in {<<p, c>> \in (1..Len(core.polygons)) \X (1..4) :
                                      c <= Len(core.polygons[p]) /\ core.polygons[p][c] = v} :
                         pc0[1] < other[1] \/ (pc0[1] = other[1] /\ pc0[2] <= other[2])
    IN  IF \E p \in 1..Len(core.polygons) : \E c \in 1..Len(core.polygons[p]) : core.polygons[p][c] = v
        THEN [core EXCEPT !.uv[first[1]][first[2]] = Vec4D(color[1], Zero, Zero, Zero)]
        ELSE core

\* --------------------------------------------------------- setVertexColor
setVertexColor(core, v, color) ==
    [core EXCEPT !.uv =
        [p \in 1..Len(core.polygons) |->
            [c \in 1..Len(core.polygons[p]) |->
                IF vertexIndex(core, p - 1, c - 1) = v
                THEN Vec4D(color[1], Zero, Zero, Zero)
                ELSE core.uv[p][c]]]]

\* ------------------------------------------------------------------ scene
\* The document the tool runs on: node 1 is doc.root().
\*   1 root (folder)
\*     2 Floor   a two-corner polygon and a quad in the plane y = 0
\*       3 Roof  a quad above the floor, scaled by 2
\*     4 Empty   a polygon object whose core has no vertex
\*       5 Shell a double-sided triangle and an isolated vertex; the host
\*               gives no modified core for it
NGONFAMILY == "NGON"
FOLDERFAMILY == "FOLDER"
InitialUV == Vec4D(Num(2), Num(3), Zero, Zero)

MkCore(vertices, polygons, normals) ==
    [null |-> FALSE, vertices |-> vertices, polygons |-> polygons, normals |-> normals,
     uv |-> [p \in 1..Len(polygons) |-> [c \in 1..Len(polygons[p]) |-> InitialUV]]]

MkNode(family, children, matrix, core, modCore) ==
    [family |-> family, children |-> children, matrix |-> matrix,
     core |-> core, modCore |-> modCore]

NullCore == [null |-> TRUE, vertices |-> <<>>, polygons |-> <<>>, normals |-> <<>>, uv |-> <<>>]

FloorCore ==
    MkCore(<<V3(0, 0, 0), V3(4, 0, 0), V3(4, 0, 4), V3(0, 0, 4)>>,
           <<<<0, 1>>, <<0, 1, 2, 3>>>>,
           <<ZeroVec, V3(0, 1, 0)>>)
RoofCore ==
    MkCore(<<V3(0, 0, 0), V3(2, 0, 0), V3(2, 0, 2), V3(0, 0, 2)>>,
           <<<<0, 1, 2, 3>>>>,
           <<V3(0, -1, 0)>>)
EmptyCore == MkCore(<<>>, <<>>, <<>>)
ShellCore ==
    MkCore(<<V3(0, 0, 0), V3(1, 0, 0), V3(0, 0, 1), V3(4, 4, 4)>>,
           <<<<0, 1, 2>>, <<2, 1, 0>>>>,
           <<V3(0, 1, 0), V3(0, -1, 0)>>)

Scene0 ==
    <<MkNode(FOLDERFAMILY, <<2, 4>>, Identity, NullCore, NullCore),
      MkNode(NGONFAMILY, <<3>>, Mat(One, V3(-1, 0, -1)), FloorCore, FloorCore),
      MkNode(NGONFAMILY, <<>>, Mat(Num(2), V3(-2, 1, -2)), RoofCore, RoofCore),
      MkNode(NGONFAMILY, <<5>>, Identity, EmptyCore, NullCore),
      MkNode(NGONFAMILY, <<>>, Mat(One, V3(5, 0, 0)), ShellCore, NullCore)>>

Nodes == 1..Len(Scene0)
Root == 1

\* ------------------------------------------------------------------ state
VARIABLES
    scene,            \* the document's objects: family, children, matrix, cores
    selectedObj,      \* doc.selectedObject(): a node or NoObject
    sampleRays, maxDistance, bias, intensity, invert,   \* the tool's parameters
    pc,               \* where bakeAmbientOcclusion stands
    allMeshes,        \* the occluder list
    pending,          \* the nodes the recursion has still to enter, in order
    processedCount,   \* count
    meshObj,          \* the object bakeMeshAO runs on, or NoObject
    v,                \* bakeMeshAO's loop variable
    sampleDirections, \* bakeMeshAO's sample set
    messages,         \* OS.messageBox and print output
    undo,             \* objects recordGeometryForUndo was called on
    visited,          \* objects processMeshesRecursively was entered for
    baked,            \* objects bakeMeshAO was called on, in order
    generated,        \* the sets generateHemisphereSamples returned, in order
    computed,         \* one record per setVertexColor call
    collects,         \* number of times the occluder list was built
    lastAO            \* calculateOcclusion's locals for the last vertex

vars == <<scene, selectedObj, sampleRays, maxDistance, bias, intensity, invert, pc, allMeshes, pending, processedCount, meshObj, v, sampleDirections, messages, undo, visited, baked, generated, computed, collects, lastAO>>

\* ------------------------------------------------------ collectAllMeshes
\* An entry holds the object, a reference to its modified core and the
\* matrix read when the entry is made.
MeshEntry(obj, which, matrix) == [object |-> obj, core |-> which, matrix |-> matrix]

\* if (core && core.vertexCount() > 0)
HasVertices(core) == ~core.null /\ vertexCount(core) > 0

\* Line 49: the core collectAllMeshes reads.
CollectedCore == "modCore"
\* Line 67: the core processMeshesRecursively bakes.
BakedCore == "core"

RECURSIVE collectAllMeshes(_, _, _)
RECURSIVE CollectChildren(_, _, _, _)
collectAllMeshes(sc, obj, meshArray) ==
    LET own == IF sc[obj].family = NGONFAMILY /\ HasVertices(sc[obj][CollectedCore])
               THEN Append(meshArray, MeshEntry(obj, CollectedCore, sc[obj].matrix))
               ELSE meshArray
    IN  CollectChildren(sc, obj, 1, own)
CollectChildren(sc, obj, i, meshArray) ==
    IF i > Len(sc[obj].children) THEN meshArray
    ELSE CollectChildren(sc, obj, i + 1,
                         collectAllMeshes(sc, sc[obj].children[i], meshArray))

\* The list as rayIntersectsAnyMesh reads it: every core reference followed.
Occluders(sc, meshes) ==
    [m \in 1..Len(meshes) |->
        [object |-> meshes[m].object,
         core |-> sc[meshes[m].object][meshes[m].core],
         matrix |-> meshes[m].matrix]]

\* ------------------------------------------------------------ bakeMeshAO
\* Lines 93-106 for vertex vtx of object obj.
VertexResult(nrm, occ, inten, inv) ==
    [normal |-> nrm, occluded |-> occ.occluded, totalSamples |-> occ.totalSamples,
     rays |-> occ.rays, raw |-> occ.value,
     final |-> PostProcess(occ.value, inten, inv)]

VertexOcclusion(sc, obj, vtx, nrm, meshes, samples, maxDist, bs, inten, inv) ==
    VertexResult(nrm,
                 calculateOcclusion(MatMultiply(sc[obj].matrix, vertex(sc[obj][BakedCore], vtx)),
                                    nrm, samples, Occluders(sc, meshes), maxDist, bs),
                 inten, inv)

VertexAO(sc, obj, vtx, meshes, samples, maxDist, bs, inten, inv) ==
    VertexOcclusion(sc, obj, vtx,
                    calculateVertexNormal(sc[obj][BakedCore], vtx, sc[obj].matrix),
                    meshes, samples, maxDist, bs, inten, inv)

\* ------------------------------------------------------- tool parameters
\* buildUI: "Sample Rays" has minimum 8; "Bias" has maximum 0.1.
MinSampleRays == 8
\* The settings of the tool's five parameters that a bake is started with.
ParameterChoices ==
    {[sampleRays |-> MinSampleRays, maxDistance |-> One, bias |-> <<1, 10>>, intensity |-> One, invert |-> FALSE],
     [sampleRays |-> MinSampleRays, maxDistance |-> Num(2), bias |-> <<1, 10>>, intensity |-> One, invert |-> TRUE],
     [sampleRays |-> MinSampleRays, maxDistance |-> Num(2), bias |-> <<1, 10>>, intensity |-> Num(2), invert |-> FALSE],
     [sampleRays |-> MinSampleRays, maxDistance |-> Num(2), bias |-> <<1, 10>>, intensity |-> <<1, 2>>, invert |-> TRUE]}

NoAO == [normal |-> ZeroVec, occluded |-> 0, totalSamples |-> 0, rays |-> <<>>, raw |-> Zero, final |-> Zero]

Init ==
    /\ scene = Scene0
    /\ selectedObj \in Nodes \cup {NoObject}
    /\ \E par \in ParameterChoices :
          /\ sampleRays = par.sampleRays
          /\ maxDistance = par.maxDistance
          /\ bias = par.bias
          /\ intensity = par.intensity
          /\ invert = par.invert
    /\ pc = "idle"
    /\ allMeshes = <<>>
    /\ pending = <<>>
    /\ processedCount = 0
    /\ meshObj = NoObject
    /\ v = 0
    /\ sampleDirections = <<>>
    /\ messages = <<>>
    /\ undo = {}
    /\ visited = <<>>
    /\ baked = <<>>
    /\ generated = <<>>
    /\ computed = <<>>
    /\ collects = 0
    /\ lastAO = NoAO

\* Variant: the error is shown but the handler does not return.
MissingSelectionNoReturn ==
    /\ pc = "idle"
    /\ selectedObj = NoObject
    /\ messages' = Append(messages, <<"messageBox", "Error", "Please select an object first.">>)
    /\ pc' = "collect"
    /\ UNCHANGED <<scene, selectedObj, sampleRays, maxDistance, bias, intensity, invert, allMeshes, pending, processedCount, meshObj, v, sampleDirections, undo, visited, baked, generated, computed, collects, lastAO>>

\* Lines 17-23: the button is pressed with nothing selected.
MissingSelection ==
    /\ pc = "idle"
    /\ selectedObj = NoObject
    /\ messages' = Append(messages, <<"messageBox", "Error", "Please select an object first.">>)
    /\ pc' = "done"
    /\ UNCHANGED <<scene, selectedObj, sampleRays, maxDistance, bias, intensity, invert, allMeshes, pending, processedCount, meshObj, v, sampleDirections, undo, visited, baked, generated, computed, collects, lastAO>>

\* Lines 17-33: the button is pressed with an object selected.
StartBake ==
    /\ pc = "idle"
    /\ selectedObj # NoObject
    /\ messages' = messages \o <<<<"print", "Starting Ambient Occlusion baking...">>, <<"print", "Sample Rays", sampleRays>>, <<"print", "Max Distance", maxDistance>>>>
    /\ pc' = "collect"
    /\ UNCHANGED <<scene, selectedObj, sampleRays, maxDistance, bias, intensity, invert, allMeshes, pending, processedCount, meshObj, v, sampleDirections, undo, visited, baked, generated, computed, collects, lastAO>>

\* Variant: the recursion starts at the document's root.
RecursionRootDocument == Root

\* Variant: the occluders are collected below the selection only.
OccluderRootSelection == selectedObj

\* Line 37: the object the occluder collection starts at, doc.root().
OccluderRoot == Root

\* Line 41: the object the recursion starts at.
RecursionRoot == selectedObj

\* Lines 36-41: build the occluder list, then enter the recursion.
CollectOccluders ==
    /\ pc = "collect"
    /\ allMeshes' = collectAllMeshes(scene, OccluderRoot, <<>>)
    /\ collects' = collects + 1
    /\ processedCount' = 0
    /\ pending' = <<RecursionRoot>>
    /\ pc' = "process"
    /\ UNCHANGED <<scene, selectedObj, sampleRays, maxDistance, bias, intensity, invert, meshObj, v, sampleDirections, messages, undo, visited, baked, generated, computed, lastAO>>

\* Line 66-68: the test processMeshesRecursively makes on entry.
MeshBearing(sc, obj) == sc[obj].family = NGONFAMILY /\ HasVertices(sc[obj][BakedCore])

\* Variant: the children of an object that was baked are not entered.
EnterChildrenUnlessBaked(sc, obj, rest) ==
    IF MeshBearing(sc, obj) THEN rest ELSE sc[obj].children \o rest

\* Lines 78-80: the children are entered, in order, before whatever followed
\* the call for obj.
EnterChildren(sc, obj, rest) == sc[obj].children \o rest

\* bakeMeshAO line 90.  One of the random source's outcomes.
SampleSet(count, stream) == generateHemisphereSamples(count, stream)

\* processMeshesRecursively entered for an object that carries no mesh
\* (lines 66-68 fail, 78-80).
SkipObject ==
    /\ pc = "process"
    /\ pending # <<>>
    /\ ~MeshBearing(scene, Head(pending))
    /\ visited' = Append(visited, Head(pending))
    /\ pending' = EnterChildren(scene, Head(pending), Tail(pending))
    /\ UNCHANGED <<scene, selectedObj, sampleRays, maxDistance, bias, intensity, invert, pc, allMeshes, processedCount, meshObj, v, sampleDirections, messages, undo, baked, generated, computed, collects, lastAO>>

\* Variant: the sample set is generated for the first mesh of a bake only
\* and kept for the meshes after it.
BeginMeshKeepSamples ==
    /\ pc = "process"
    /\ pending # <<>>
    /\ MeshBearing(scene, Head(pending))
    /\ visited' = Append(visited, Head(pending))
    /\ undo' = undo \cup {Head(pending)}
    /\ meshObj' = Head(pending)
    /\ baked' = Append(baked, Head(pending))
    /\ IF generated = <<>>
       THEN \E stream \in 1..NumStreams :
               /\ sampleDirections' = SampleSet(sampleRays, stream)
               /\ generated' = Append(generated, SampleSet(sampleRays, stream))
       ELSE /\ sampleDirections' = generated[1]
            /\ generated' = generated
    /\ v' = 0
    /\ pc' = "bake"
    /\ UNCHANGED <<scene, selectedObj, sampleRays, maxDistance, bias, intensity, invert, allMeshes, pending, processedCount, messages, computed, collects, lastAO>>

\* processMeshesRecursively entered for a mesh (lines 66-70), and bakeMeshAO
\* up to its vertex loop (lines 86-90).
BeginMesh ==
    /\ pc = "process"
    /\ pending # <<>>
    /\ MeshBearing(scene, Head(pending))
    /\ visited' = Append(visited, Head(pending))
    /\ undo' = undo \cup {Head(pending)}
    /\ meshObj' = Head(pending)
    /\ baked' = Append(baked, Head(pending))
    /\ \E stream \in 1..NumStreams :
          /\ sampleDirections' = SampleSet(sampleRays, stream)
          /\ generated' = Append(generated, SampleSet(sampleRays, stream))
    /\ v' = 0
    /\ pc' = "bake"
    /\ UNCHANGED <<scene, selectedObj, sampleRays, maxDistance, bias, intensity, invert, allMeshes, pending, processedCount, messages, computed, collects, lastAO>>

\* One turn of bakeMeshAO's vertex loop (lines 92-111).
BakeVertex ==
    /\ pc = "bake"
    /\ v < vertexCount(scene[meshObj][BakedCore])
    /\ \E ao \in {VertexAO(scene, meshObj, v, allMeshes, sampleDirections, maxDistance, bias, intensity, invert)} :
           /\ scene' = [scene EXCEPT ![meshObj][BakedCore] =
                            setVertexColor(@, v, Vec4D(ao.final, ao.final, ao.final, One))]
           /\ computed' = Append(computed, [object |-> meshObj, vertex |-> v, value |-> ao.final, set |-> Len(generated)])
           /\ lastAO' = ao
    /\ v' = v + 1
    /\ UNCHANGED <<selectedObj, sampleRays, maxDistance, bias, intensity, invert, pc, allMeshes, pending, processedCount, meshObj, sampleDirections, messages, undo, visited, baked, generated, collects>>

\* bakeMeshAO returns (line 112); lines 71-73, then the children (78-80).
FinishMesh ==
    /\ pc = "bake"
    /\ ~(v < vertexCount(scene[meshObj][BakedCore]))
    /\ processedCount' = processedCount + 1
    /\ messages' = Append(messages, <<"print", "Processed mesh", meshObj>>)
    /\ pending' = EnterChildren(scene, meshObj, Tail(pending))
    /\ meshObj' = NoObject
    /\ sampleDirections' = <<>>
    /\ v' = 0
    /\ pc' = "process"
    /\ UNCHANGED <<scene, selectedObj, sampleRays, maxDistance, bias, intensity, invert, allMeshes, undo, visited, baked, generated, computed, collects, lastAO>>

\* The outermost processMeshesRecursively returns; lines 43-44.
FinishBake ==
    /\ pc = "process"
    /\ pending = <<>>
    /\ messages' = Append(messages, <<"print", "Ambient Occlusion baking complete.", processedCount>>)
    /\ pc' = "done"
    /\ UNCHANGED <<scene, selectedObj, sampleRays, maxDistance, bias, intensity, invert, allMeshes, pending, processedCount, meshObj, v, sampleDirections, undo, visited, baked, generated, computed, collects, lastAO>>

Next ==
    \/ MissingSelection
    \/ StartBake
    \/ CollectOccluders
    \/ SkipObject
    \/ BeginMesh
    \/ BakeVertex
    \/ FinishMesh
    \/ FinishBake

Spec == Init /\ [][Next]_vars

\* ================================================================ claims
\* The objects of the subtree rooted at obj, in the order the recursion
\* enters them.
RECURSIVE SubtreeSeq(_, _)
RECURSIVE ChildrenSeq(_, _, _)
SubtreeSeq(sc, obj) == <<obj>> \o ChildrenSeq(sc, obj, 1)
ChildrenSeq(sc, obj, i) ==
    IF i > Len(sc[obj].children) THEN <<>>
    ELSE SubtreeSeq(sc, sc[obj].children[i]) \o ChildrenSeq(sc, obj, i + 1)

Range(seq) == {seq[i] : i \in 1..Len(seq)}
SelectedSubtree == IF selectedObj = NoObject THEN {} ELSE Range(SubtreeSeq(Scene0, selectedObj))
Geometry(core) == <<core.null, core.vertices, core.polygons, core.normals>>
Finished(obj) == obj \in Range(baked) /\ obj # meshObj
InUnit(x) == RLe(Zero, x) /\ RLe(x, One)

\* ---------------------------------------------------------------- C1
\* C1: once bakeMeshAO has finished on a mesh, every vertex of it had exactly
\* one scalar computed, and every corner that references the vertex holds
\* that scalar as the first component of its slot.
C1_OneScalarPerVertex ==
    \A obj \in Nodes :
        Finished(obj) =>
            LET core == scene[obj][BakedCore]
            IN  \A vtx \in 0..(vertexCount(core) - 1) :
                    LET made == {i \in 1..Len(computed) :
                                    computed[i].object = obj /\ computed[i].vertex = vtx}
                    IN  /\ Cardinality(made) = 1
                        /\ \A p \in 0..(polygonCount(core) - 1) :
                             \A c \in 0..(polygonSize(core, p) - 1) :
                                vertexIndex(core, p, c) = vtx =>
                                    \A i \in made : core.uv[p + 1][c + 1][1] = computed[i].value

\* The floor is baked: its vertex 0 is a corner of both its polygons, and
\* its vertices did not all get the same scalar.
C1_Witness ==
    /\ Finished(2)
    /\ scene[2].core.uv[1][1][1] = scene[2].core.uv[2][1][1]
    /\ scene[2].core.uv[2][1][1] # scene[2].core.uv[2][3][1]

\* ---------------------------------------------------------------- C2
\* C2: with no object selected the error is shown and the handler returns
\* with no occluder collected, no undo recorded and no mesh changed.
C2_MissingSelectionAborts ==
    selectedObj = NoObject =>
        /\ pc \in {"idle", "done"}
        /\ pc = "done" => messages = <<<<"messageBox", "Error", "Please select an object first.">>>>
        /\ scene = Scene0
        /\ allMeshes = <<>> /\ collects = 0
        /\ undo = {} /\ computed = <<>> /\ baked = <<>> /\ visited = <<>>

C2_Witness == selectedObj = NoObject /\ pc = "done" /\ messages # <<>>

\* ---------------------------------------------------------------- C3
\* C3: a bake changes nothing of any mesh but output slots of meshes in the
\* selected subtree: positions, corner lists, face normals, transforms and
\* the tree are as they were, and so is every slot outside the subtree.
C3_OnlySubtreeSlotsChange ==
    \A n \in Nodes :
        /\ scene[n].family = Scene0[n].family
        /\ scene[n].children = Scene0[n].children
        /\ scene[n].matrix = Scene0[n].matrix
        /\ Geometry(scene[n].core) = Geometry(Scene0[n].core)
        /\ Geometry(scene[n].modCore) = Geometry(Scene0[n].modCore)
        /\ n \notin SelectedSubtree =>
              /\ scene[n].core.uv = Scene0[n].core.uv
              /\ scene[n].modCore.uv = Scene0[n].modCore.uv

\* The roof alone was baked, with a ray stopped by the floor, which is an
\* occluder outside the selected subtree.
C3_Witness ==
    /\ pc = "done" /\ selectedObj = 3
    /\ scene[3].core.uv # Scene0[3].core.uv
    /\ \E m \in 1..Len(allMeshes) : allMeshes[m].object = 2
    /\ lastAO.occluded > 0

\* ---------------------------------------------------------------- C4
\* C4: the recursion enters every object of the selected subtree once, in
\* tree order, bakes exactly the mesh-bearing ones, once each, and returns
\* the number of them.
MeshBearingIn(seq) == {i \in 1..Len(seq) : MeshBearing(Scene0, seq[i])}
C4_TreeWalk ==
    (pc = "done" /\ selectedObj # NoObject) =>
        LET tree == SubtreeSeq(Scene0, selectedObj)
        IN  /\ visited = tree
            /\ Len(baked) = Cardinality(MeshBearingIn(tree))
            /\ Range(baked) = {tree[i] : i \in MeshBearingIn(tree)}
            /\ processedCount = 0 + Cardinality(MeshBearingIn(tree))
            /\ messages[Len(messages)] = <<"print", "Ambient Occlusion baking complete.", processedCount>>

\* The whole document was walked: a mesh with a child mesh (floor), and an
\* object without geometry whose child has some (empty, shell).
C4_Witness == pc = "done" /\ selectedObj = Root /\ processedCount = 3 /\ Len(visited) = 5

\* ---------------------------------------------------------------- C5
\* C5: the normal estimator returns world-up when no polygon references the
\* vertex and when the averaged world normal has length zero, and never
\* returns the zero vector.
C5_NormalFallsBackToUp ==
    \A obj \in Nodes :
        (obj = meshObj /\ v > 0) =>
            LET core == scene[obj][BakedCore]
                sum == FaceScan(core, v - 1, 0, <<ZeroVec, 0>>)
            IN  /\ lastAO.normal = calculateVertexNormal(core, v - 1, scene[obj].matrix)
                /\ lastAO.normal # ZeroVec
                /\ (sum[2] = 0 \/ sum[1] = ZeroVec) => lastAO.normal = WorldUp

\* ---------------------------------------------------------------- C6
\* C6: after the N samples of a vertex the occluded counter is the number of
\* rays that were stopped, so 0 <= occluded <= N; the raw accessibility is
\* 1 - occluded / N; and the scalar written lies in [0, 1].
C6_OcclusionInUnitRange ==
    /\ \A i \in 1..Len(computed) : InUnit(computed[i].value)
    /\ computed # <<>> =>
          LET stopped == {s \in 1..Len(lastAO.rays) :
                            rayIntersectsAnyMesh(lastAO.rays[s].start, lastAO.rays[s].end,
                                                 Occluders(scene, allMeshes))}
          IN  /\ lastAO.totalSamples = sampleRays /\ sampleRays >= 1
              /\ Len(lastAO.rays) = sampleRays
              /\ lastAO.occluded = Cardinality(stopped)
              /\ 0 <= lastAO.occluded /\ lastAO.occluded <= sampleRays
              /\ lastAO.raw[1] * sampleRays = (sampleRays - lastAO.occluded) * lastAO.raw[2]
              /\ InUnit(lastAO.raw) /\ InUnit(lastAO.final)
              /\ computed[Len(computed)].value = lastAO.final

\* A vertex with some rays stopped and some not, baked with a fractional
\* exponent and inversion.
C6_Witness ==
    /\ computed # <<>>
    /\ 0 < lastAO.occluded /\ lastAO.occluded < sampleRays
    /\ intensity = <<1, 2>> /\ invert
    /\ lastAO.final # lastAO.raw /\ RLt(Zero, lastAO.final) /\ RLt(lastAO.final, One)

\* ---------------------------------------------------------------- C7
\* C7: every mesh that is baked is an entry of the occluder list its own
\* bake is given.
C7_BakedAreOccluders ==
    \A i \in 1..Len(baked) :
        \E m \in 1..Len(allMeshes) : allMeshes[m].object = baked[i]

\* ---------------------------------------------------------------- C8
\* C8 as stated: one bake generates the sample set exactly once and every
\* vertex of every mesh is computed with that one set.
C8_GeneratedOncePerBake ==
    (pc = "done" /\ selectedObj # NoObject) =>
        /\ Len(generated) = 1
        /\ \A i \in 1..Len(computed) : computed[i].set = 1

\* C8 as amended: every bakeMeshAO call generates the sample set exactly
\* once, before its first vertex, and every vertex of that mesh is computed
\* with that set; a bake generates as many sets as it bakes meshes.
C8_GeneratedOncePerMesh ==
    /\ Len(generated) = Len(baked)
    /\ \A i \in 1..Len(computed) :
          /\ computed[i].set \in 1..Len(baked)
          /\ baked[computed[i].set] = computed[i].object
    /\ pc = "bake" => sampleDirections = generated[Len(generated)]
    /\ \A k \in 1..Len(generated) : Len(generated[k]) = sampleRays

\* A bake of two meshes whose vertices were computed with different sets.
C8_Witness ==
    /\ pc = "done" /\ Len(baked) >= 2
    /\ generated[1] # generated[2]
    /\ \E i, j \in 1..Len(computed) : computed[i].set = 1 /\ computed[j].set = 2

\* ---------------------------------------------------------------- C9
\* C9: the occluder list is built once, from the scene as the bake found it,
\* before any slot is written, and is the same list ever after; what the
\* intersection engine reads through it is never written, so a vertex's
\* value is the one the untouched scene gives, whatever was baked before.
C9_OccludersFixed ==
    /\ collects <= 1
    /\ (pc \notin {"idle", "collect"} /\ selectedObj # NoObject) =>
          /\ collects = 1
          /\ allMeshes = collectAllMeshes(Scene0, Root, <<>>)
    /\ computed # <<>> => collects = 1
    /\ \A m \in 1..Len(allMeshes) :
          /\ Geometry(Occluders(scene, allMeshes)[m].core) = Geometry(Occluders(Scene0, allMeshes)[m].core)
          /\ allMeshes[m].matrix = Scene0[allMeshes[m].object].matrix
    /\ computed # <<>> =>
          LET last == computed[Len(computed)]
          IN  last.value = VertexAO(Scene0, last.object, last.vertex,
                                    collectAllMeshes(Scene0, Root, <<>>), generated[last.set],
                                    maxDistance, bias, intensity, invert).final

\* The roof is baked after the floor, itself an occluder, had its slots
\* written, and a ray from the roof is stopped by the floor.
C9_Witness ==
    /\ baked = <<2, 3>> /\ computed # <<>>
    /\ computed[Len(computed)].object = 3
    /\ scene[2].core.uv # Scene0[2].core.uv
    /\ lastAO.occluded > 0

\* --------------------------------------------------------------- C10
\* The fan triangle (corner 0, corner t + 1, corner t + 2) of polygon p of
\* occluder m is accepted for the segment.
Accepts(rayStart, rayEnd, meshes, m, p, t) ==
    LET ray == LocalRay(rayStart, rayEnd, meshes[m])
        core == meshes[m].core
    IN  /\ ray.length # Zero
        /\ rayTriangleIntersect(ray.start, ray.dir, ray.length,
                                vertex(core, vertexIndex(core, p, 0)),
                                vertex(core, vertexIndex(core, p, t + 1)),
                                vertex(core, vertexIndex(core, p, t + 2)))

\* All places <<m, p, t>> with t in 0 .. k - 3 of the occluder list.
Places(meshes) ==
    {<<m, p, t>> \in (1..Len(meshes)) \X (0..3) \X (0..3) :
        /\ p < polygonCount(meshes[m].core)
        /\ t <= polygonSize(meshes[m].core, p) - 3}

Before(a, b) ==
    \/ a[1] < b[1]
    \/ a[1] = b[1] /\ a[2] < b[2]
    \/ a[1] = b[1] /\ a[2] = b[2] /\ a[3] < b[3]

====
